---- MODULE Spec2Model ----
(***************************************************************************)
(* Model of robotally, the GitHub webhook that keeps one status report     *)
(* comment per issue / pull request (src/robotally.go).                    *)
(*                                                                         *)
(* Texts (comment bodies, logins, the rendered report) are sequences of    *)
(* one-character strings, so that strings.Contains, the two regular        *)
(* expressions, sort.Strings and fmt.Sprintf are computed on characters    *)
(* as the Go code computes them.                                           *)
(***************************************************************************)
EXTENDS Integers, Sequences, FiniteSets, TLC

(***************************************************************************)
(* Bounds of the model.                                                    *)
(***************************************************************************)
\* largest render time, in seconds since the epoch, that time.Now() returns
MaxTime == 0
\* number of times status is executed on the same inputs (SpecStatus, SpecAggregate)
MaxRuns == 2
\* longest comment history handed to aggregate (SpecAggregate)
MaxHist == 2

(***************************************************************************)
(* Characters and strings.                                                 *)
(***************************************************************************)
\* the character of code 96 (the backquote), which a TLA+ string cannot hold
Backquote == "bq"

\* the printable ASCII characters, in code order from 32 (space) to 126
Printable ==
  <<" ","!","\"","#","$","%","&","'","(",")","*","+",",","-",".","/",
    "0","1","2","3","4","5","6","7","8","9",":",";","<","=",">","?",
    "@","A","B","C","D","E","F","G","H","I","J","K","L","M","N","O",
    "P","Q","R","S","T","U","V","W","X","Y","Z","[","\\","]","^","_",
    Backquote,"a","b","c","d","e","f","g","h","i","j","k","l","m","n","o",
    "p","q","r","s","t","u","v","w","x","y","z","{","|","}","~">>

\* the byte value of a character
Ord(c) == IF c = "\n" THEN 10
          ELSE 31 + (CHOOSE i \in 1..Len(Printable) : Printable[i] = c)

\* the characters the class [a-z0-9_] accepts
WordChars == {Printable[i] : i \in 17..26} \cup {Printable[i] : i \in 66..91} \cup {"_"}

\* Go's < on strings: bytewise lexicographic order
RECURSIVE StrLess(_, _)
StrLess(a, b) ==
  IF b = <<>> THEN FALSE
  ELSE IF a = <<>> THEN TRUE
  ELSE IF Ord(Head(a)) # Ord(Head(b)) THEN Ord(Head(a)) < Ord(Head(b))
  ELSE StrLess(Tail(a), Tail(b))

\* the string p occurs in s starting at index i
OccursAt(s, p, i) ==
  /\ i >= 1
  /\ i + Len(p) - 1 <= Len(s)
  /\ \A k \in 1..Len(p) : s[i + k - 1] = p[k]

\* strings.Contains(s, p)
Contains(s, p) == \E i \in 1..(Len(s) + 1) : OccursAt(s, p, i)

\* insert x into the ascending list l, before the first larger element
RECURSIVE InsertSorted(_, _)
InsertSorted(l, x) ==
  IF l = <<>> THEN <<x>>
  ELSE IF StrLess(x, Head(l)) THEN <<x>> \o l
  ELSE <<Head(l)>> \o InsertSorted(Tail(l), x)

\* sort.Strings(l): the strings of l in ascending order
RECURSIVE SortStrings(_)
SortStrings(l) ==
  IF l = <<>> THEN <<>>
  ELSE InsertSorted(SortStrings(Tail(l)), Head(l))

\* strings.Join(l, sep)
RECURSIVE Join(_, _)
Join(l, sep) ==
  IF l = <<>> THEN <<>>
  ELSE IF Len(l) = 1 THEN Head(l)
  ELSE Head(l) \o sep \o Join(Tail(l), sep)

\* fmt's %d of a natural number
RECURSIVE Itoa(_)
Itoa(n) ==
  IF n < 10 THEN <<Printable[17 + n]>>
  ELSE Itoa(n \div 10) \o <<Printable[17 + (n % 10)]>>

\* time.Now().UTC().Format("Mon Jan 2 15:04:05 MST 2006") at t seconds
\* after the epoch, for t below ten
FormatTime(t) ==
  <<"T","h","u"," ","J","a","n"," ","1"," ","0","0",":","0","0",":","0">>
    \o Itoa(t) \o <<" ","U","T","C"," ","1","9","7","0">>

\* the sequences that enumerate the set S once each: the orders in which a
\* range over a Go map with key set S can visit its keys
PermSeqs(S) ==
  {s \in [1..Cardinality(S) -> S] :
     \A i, j \in 1..Cardinality(S) : i # j => s[i] # s[j]}

\* the set of elements of a sequence
Range(s) == {s[i] : i \in 1..Len(s)}

\* a map with no key (also a nil map)
EmptyMap == [k \in {} |-> k]

(***************************************************************************)
(* Configuration (src/auth.go, src/robotally.go:21).                       *)
(***************************************************************************)
githubUser == <<"r","o","b","o","t","a","l","l","y">>

disabled == {<<":","+","1">>, <<":","-","1">>}

(***************************************************************************)
(* Comments of the thread, as the comment store lists them.                *)
(***************************************************************************)
\* a comment of the store: its id, its author's login, its body
Comment(id, user, body) == [id |-> id, user |-> user, body |-> body]

\* comment.String(): the go-github rendering of a comment, which holds the
\* body verbatim between double quotes
CommentString(comment) == <<"\"">> \o comment.body \o <<"\"">>

\* m with key k set to v
MapPut(m, k, v) == [x \in (DOMAIN m) \cup {k} |-> IF x = k THEN v ELSE m[x]]

(***************************************************************************)
(* aggregate (src/robotally.go:112-143).                                   *)
(***************************************************************************)
\* where the match of :[a-z0-9_]+: that starts at index i of s ends, 0 if
\* no match starts there
EmojiEnd(s, i) ==
  IF s[i] # ":" THEN 0
  ELSE LET ends == {k \in (i + 2)..Len(s) :
                      /\ s[k] = ":"
                      /\ \A m \in (i + 1)..(k - 1) : s[m] \in WordChars}
       IN  IF ends = {} THEN 0 ELSE CHOOSE k \in ends : TRUE

\* emojis.FindAllString(s, -1) from index p on: the leftmost matches of
\* :[a-z0-9_]+: in order, none overlapping the one before
RECURSIVE EmojisFindAllString(_, _)
EmojisFindAllString(s, p) ==
  LET starts == {i \in p..Len(s) : EmojiEnd(s, i) # 0}
  IN  IF starts = {} THEN <<>>
      ELSE LET i == CHOOSE x \in starts : \A y \in starts : x <= y
               k == EmojiEnd(s, i)
           IN  <<SubSeq(s, i, k)>> \o EmojisFindAllString(s, k + 1)

\* the loop of lines 132-140 from one found emoji on: record the user
\* under every found emoji that is not disabled
RECURSIVE TallyFound(_, _, _)
TallyFound(reactions, found, user) ==
  IF found = <<>> THEN reactions
  ELSE LET emoji == Head(found)
           users == IF emoji \in DOMAIN reactions THEN reactions[emoji] ELSE {}
       IN  IF emoji \notin disabled
           THEN TallyFound(MapPut(reactions, emoji, users \cup {user}), Tail(found), user)
           ELSE TallyFound(reactions, Tail(found), user)

\* a matcher that also takes + and - in a code and leaves the closing
\* colon out of what it returns
LooseEnd(s, i) ==
  IF s[i] # ":" THEN 0
  ELSE LET ends == {k \in (i + 2)..Len(s) :
                      /\ s[k] = ":"
                      /\ \A m \in (i + 1)..(k - 1) : s[m] \in WordChars \cup {"+", "-"}}
       IN  IF ends = {} THEN 0 ELSE CHOOSE k \in ends : TRUE

RECURSIVE LooseFindAllString(_, _)
LooseFindAllString(s, p) ==
  LET starts == {i \in p..Len(s) : LooseEnd(s, i) # 0}
  IN  IF starts = {} THEN <<>>
      ELSE LET i == CHOOSE x \in starts : \A y \in starts : x <= y
               k == LooseEnd(s, i)
           IN  <<SubSeq(s, i, k - 1)>> \o LooseFindAllString(s, k + 1)

RECURSIVE TallyAll(_, _, _)
TallyAll(reactions, found, user) ==
  IF found = <<>> THEN reactions
  ELSE LET emoji == Head(found)
           users == IF emoji \in DOMAIN reactions THEN reactions[emoji] ELSE {}
       IN  TallyAll(MapPut(reactions, emoji, users \cup {user}), Tail(found), user)

\* TallyEmojis with the loose matcher and no look at the disabled emojis
TallyEmojisLoose(reactions, text, user) ==
  TallyAll(reactions, LooseFindAllString(text, 1), user)

\* lines 130-140: find the emojis of a comment and record its user under
\* those that are not disabled
TallyEmojis(reactions, text, user) ==
  TallyFound(reactions, EmojisFindAllString(text, 1), user)

\* TallyVote that looks for the reject marker first
TallyVoteRejectFirst(votes, text, user) ==
  IF Contains(text, <<":","-","1",":">>) THEN MapPut(votes, user, FALSE)
  ELSE IF Contains(text, <<":","+","1",":">>) THEN MapPut(votes, user, TRUE)
  ELSE votes

\* the vote update of lines 125-129
TallyVote(votes, text, user) ==
  IF Contains(text, <<":","+","1",":">>) THEN MapPut(votes, user, TRUE)
  ELSE IF Contains(text, <<":","-","1",":">>) THEN MapPut(votes, user, FALSE)
  ELSE votes

\* AggregateComment that also counts the comments of the engine
AggregateCommentAll(acc, comment) ==
  [votes     |-> TallyVote(acc.votes, CommentString(comment), comment.user),
   reactions |-> TallyEmojis(acc.reactions, CommentString(comment), comment.user)]

\* one iteration of the loop of line 119
AggregateComment(acc, comment) ==
  IF comment.user = githubUser THEN acc
  ELSE [votes     |-> TallyVote(acc.votes, CommentString(comment), comment.user),
        reactions |-> TallyEmojis(acc.reactions, CommentString(comment), comment.user)]

\* AggregateFrom that goes through the comments from the newest to the
\* oldest
RECURSIVE AggregateFromNewest(_, _)
AggregateFromNewest(acc, comments) ==
  IF comments = <<>> THEN acc
  ELSE AggregateComment(AggregateFromNewest(acc, Tail(comments)), Head(comments))

\* the loop of lines 119-141 from one comment on
RECURSIVE AggregateFrom(_, _)
AggregateFrom(acc, comments) ==
  IF comments = <<>> THEN acc
  ELSE AggregateFrom(AggregateComment(acc, Head(comments)), Tail(comments))

\* aggregate(comments): the votes and the reactions of the thread
aggregate(comments) ==
  AggregateFrom([votes |-> EmptyMap, reactions |-> EmptyMap], comments)

(***************************************************************************)
(* The warning carried by an earlier report (src/robotally.go:90-97).      *)
(***************************************************************************)
ExclOpen == <<":","e","x","c","l","a","m","a","t","i","o","n",":"," ">>
ExclClose == <<" ",":","e","x","c","l","a","m","a","t","i","o","n",":">>

\* where a match of ":exclamation: (.*) :exclamation:" that starts at index
\* i of s can end its group: the closing marker follows on the same line
WarningEnds(s, i) ==
  {j \in (i + Len(ExclOpen))..Len(s) :
     /\ OccursAt(s, ExclClose, j)
     /\ \A m \in (i + Len(ExclOpen))..(j - 1) : s[m] # "\n"}

\* the indices of s where a match starts
WarningStarts(s) ==
  {i \in 1..Len(s) : OccursAt(s, ExclOpen, i) /\ WarningEnds(s, i) # {}}

\* FindAllStringSubmatch(s, -1): whether there is a match, and the group of
\* the first one (leftmost start, longest group)
FindWarning(s) ==
  LET starts == WarningStarts(s)
  IN  IF starts = {} THEN [found |-> FALSE, text |-> <<>>]
      ELSE LET i == CHOOSE x \in starts : \A y \in starts : x <= y
               ends == WarningEnds(s, i)
               j == CHOOSE x \in ends : \A y \in ends : y <= x
           IN  [found |-> TRUE, text |-> SubSeq(s, i + Len(ExclOpen), j - 1)]

\* RetainWarning that looks at the comments of everybody
RECURSIVE RetainWarningAny(_, _)
RetainWarningAny(warning, comments) ==
  IF comments = <<>> THEN warning
  ELSE LET m == FindWarning(CommentString(Head(comments)))
       IN  IF m.found
           THEN RetainWarningAny(m.text, Tail(comments))
           ELSE RetainWarningAny(warning, Tail(comments))

\* the loop of lines 90-97: the warning of the last engine comment that has one
RECURSIVE RetainWarning(_, _)
RetainWarning(warning, comments) ==
  IF comments = <<>> THEN warning
  ELSE LET comment == Head(comments)
           m == FindWarning(CommentString(comment))
       IN  IF comment.user = githubUser /\ m.found
           THEN RetainWarning(m.text, Tail(comments))
           ELSE RetainWarning(warning, Tail(comments))

(***************************************************************************)
(* status (src/robotally.go:145-201).                                      *)
(***************************************************************************)
\* the keys of a map in the order a range over it visits them, when the
\* runtime's order over all possible keys is order
RangeKeys(keys, order) ==
  LET IsKey(k) == k \in keys IN SelectSeq(order, IsKey)

\* "@"+user for every user of a list
Mentions(users) == [i \in 1..Len(users) |-> <<"@">> \o users[i]]

\* VoteList without the sort of lines 164-165
VoteListUnsorted(votes, yes, userOrder) ==
  LET Voted(u) == votes[u] = yes
  IN  Mentions(SelectSeq(RangeKeys(DOMAIN votes, userOrder), Voted))

\* lines 155-165: the sorted mentions of the users whose vote is yes
VoteList(votes, yes, userOrder) ==
  LET Voted(u) == votes[u] = yes
  IN  SortStrings(Mentions(SelectSeq(RangeKeys(DOMAIN votes, userOrder), Voted)))

\* StatusReactions that mentions every user of an emoji twice
StatusReactionsRepeated(emojis, userOrder) ==
  [emoji \in {e \in DOMAIN emojis : emojis[e] # {}} |->
     SortStrings(Mentions(RangeKeys(emojis[emoji], userOrder))
                   \o Mentions(RangeKeys(emojis[emoji], userOrder)))]

\* lines 173-179: per emoji, the sorted mentions of its users
StatusReactions(emojis, userOrder) ==
  [emoji \in {e \in DOMAIN emojis : emojis[e] # {}} |->
     SortStrings(Mentions(RangeKeys(emojis[emoji], userOrder)))]

\* Swap as two assignments one after the other, without a temporary
SwapInTurn(emojis, i, j) == [emojis EXCEPT ![i + 1] = emojis[j + 1]]

\* emojis[i], emojis[j] = emojis[j], emojis[i] on 0-based indices
Swap(emojis, i, j) ==
  [emojis EXCEPT ![i + 1] = emojis[j + 1], ![j + 1] = emojis[i + 1]]

\* the inner loop of lines 186-191 from its iteration j on; second is read
\* from the slice emojis[i+1:] at every iteration
RECURSIVE OrderInner(_, _, _, _, _)
OrderInner(emojis, reactions, first, i, j) ==
  IF i + 1 + j >= Len(emojis) THEN emojis
  ELSE LET second == emojis[i + 1 + j + 1]
       IN  IF Len(reactions[first]) < Len(reactions[second])
           THEN OrderInner(Swap(emojis, i, j), reactions, second, i, j + 1)
           ELSE OrderInner(emojis, reactions, first, i, j + 1)

\* the outer loop of lines 185-192 from its iteration i on
RECURSIVE OrderOuter(_, _, _)
OrderOuter(emojis, reactions, i) ==
  IF i >= Len(emojis) THEN emojis
  ELSE OrderOuter(OrderInner(emojis, reactions, emojis[i + 1], i, 0), reactions, i + 1)

\* lines 181-192: the emojis in the order of their rows, when the range
\* over the reactions map visited them in emojiOrder
StatusOrder(reactions, emojiOrder) == OrderOuter(emojiOrder, reactions, 0)

\* lines 195-197: one row per emoji
RECURSIVE ReactionRows(_, _)
ReactionRows(emojis, reactions) ==
  IF emojis = <<>> THEN <<>>
  ELSE <<"|"," ">> \o Head(emojis) \o <<" ","|"," ">>
         \o Join(reactions[Head(emojis)], <<" ">>) \o <<" ","|","\n">>
         \o ReactionRows(Tail(emojis), reactions)

\* lines 150-153: the banner
Banner(warning) ==
  IF Len(warning) > 0 THEN ExclOpen \o warning \o ExclClose \o <<"\n","\n">>
  ELSE <<>>

\* lines 167-168: the vote table
VoteTable(up, down) ==
  <<"|"," ","V","o","t","e"," ","|"," ","C","o","u","n","t"," ","|"," ",
    "R","e","v","i","e","w","e","r","s"," ","|","\n",
    "|"," ",":","-","-","-",":"," ","|"," ",":","-","-","-",":"," ","|"," ",
    ":","-","-","-",":"," ","|","\n",
    "|"," ",":","+","1",":"," ","|"," ">>
    \o Itoa(Len(up)) \o <<" ","|"," ">> \o Join(up, <<" ">>)
    \o <<" ","|","\n","|"," ",":","-","1",":"," ","|"," ">>
    \o Itoa(Len(down)) \o <<" ","|"," ">> \o Join(down, <<" ">>) \o <<" ","|">>

\* lines 171-198: the reaction table, absent when there is no reaction
ReactionTable(emojis, order) ==
  IF Cardinality(DOMAIN emojis) > 0
  THEN LET reactions == StatusReactions(emojis, order.users)
       IN  <<"\n","\n","|"," ","R","e","a","c","t","i","o","n"," ","|"," ",
             "U","s","e","r","s"," ","|","\n",
             "|"," ",":","-","-","-",":"," ","|"," ",":","-","-","-",":"," ","|","\n">>
             \o ReactionRows(StatusOrder(reactions, order.emojis), reactions)
  ELSE <<>>

\* status(warning, votes, emojis) rendered at time now, when the ranges over
\* the maps visit users in order.users and the emojis in order.emojis
status(warning, votes, emojis, order, now) ==
  Banner(warning)
    \o VoteTable(VoteList(votes, TRUE, order.users), VoteList(votes, FALSE, order.users))
    \o ReactionTable(emojis, order)
    \o <<"\n","\n","_","U","p","d","a","t","e","d",":"," ">> \o FormatTime(now) \o <<"_">>

(***************************************************************************)
(* The thread, its users and the notifications the hook receives.          *)
(***************************************************************************)
\* logins of the people who comment
Users == {<<"a">>, <<"b">>}

\* the login of the person who opens, and closes, the thread
opener == <<"a">>

\* the comments people write: who writes, and what
Posts ==
  { <<<<"a">>, <<":","-","1",":"," ",":","a",":">>>>,
    <<<<"b">>, ExclOpen \o <<"x">> \o ExclClose \o <<" ",":","+","1",":">>>> }

\* a nil pointer of the decoded event, a value not there
Nil == [nil |-> TRUE]

\* what the thread is: an issue, or a pull request against a base branch
Kinds == {"issue", "master", "dev"}

\* the repository of the thread, as a notification names it
Repo == [name |-> <<"r">>, owner |-> [login |-> <<"o">>]]

\* the "opened" notification of a thread of kind k, sent by user u
OpenedEvent(k, u) ==
  [read   |-> TRUE,
   valid  |-> TRUE,
   action |-> "opened",
   sender |-> [login |-> u],
   repo   |-> Repo,
   issue  |-> IF k = "issue" THEN [number |-> 1] ELSE Nil,
   pull   |-> IF k = "issue" THEN Nil
              ELSE [number |-> 1,
                    base   |-> [ref |-> IF k = "master" THEN <<"m","a","s","t","e","r">>
                                        ELSE <<"d","e","v">>]]]

\* a notification of an action of user u on a comment of the thread, or on
\* the thread as an issue
IssueEvent(action, u) ==
  [read |-> TRUE, valid |-> TRUE, action |-> action, sender |-> [login |-> u],
   repo |-> Repo, issue |-> [number |-> 1], pull |-> Nil]

\* a request whose body json.Unmarshal rejects
InvalidEvent ==
  [read |-> TRUE, valid |-> FALSE, action |-> "", sender |-> Nil, repo |-> Nil,
   issue |-> Nil, pull |-> Nil]

\* a request whose body cannot be read to its end
UnreadableEvent == [InvalidEvent EXCEPT !.read = FALSE]

\* requests whose body decodes although objects are missing: the empty
\* JSON object, a "created" without its issue, an "opened" pull request
\* without its base, an "opened" without its repository, a "created"
\* whose repository has no owner
MalformedEvents ==
  { [InvalidEvent EXCEPT !.valid = TRUE],
    [IssueEvent("created", opener) EXCEPT !.issue = Nil],
    [OpenedEvent("master", opener) EXCEPT !.pull = [number |-> 1, base |-> Nil]],
    [OpenedEvent("issue", opener) EXCEPT !.repo = Nil],
    [IssueEvent("created", opener) EXCEPT !.repo = [name |-> <<"r">>, owner |-> Nil]] }

\* the handlers that can run at the same time
Handlers == {1, 2}

\* the handler of Spec, which handles one notification after the other
Serial == {1}

\* no response written yet: no status code
NoResponse == 0

\* the handler panicked on a nil pointer before it wrote a response
Panicked == -1

VARIABLES
  kind,      \* what the thread is
  comments,  \* the comments of the thread in the store, in creation order
  opens,     \* how many "opened" notifications were delivered
  posts,     \* how many comments people wrote
  pc,        \* per handler: "idle", "edit" between ListComments and
             \* EditComment, "done" when it has answered
  event,     \* per handler: the notification it handles
  locals,    \* per handler: the comments ListComments returned, and the
             \* votes, reactions and warning computed from them
  calls,     \* per handler: the store calls made for the notification
  response,  \* per handler: the HTTP status of the response
  input,     \* SpecStatus, SpecAggregate: the arguments of status
  outputs,   \* SpecStatus, SpecAggregate: what the executions of status returned
  history,   \* SpecAggregate: the comments handed to aggregate
  delivered  \* SpecRace: of how many comments the "created" notification
             \* was taken up

vars == <<kind, comments, opens, posts, pc, event, locals, calls, response,
          input, outputs, history, delivered>>

storeVars == <<kind, comments, opens, posts>>
handlerVars == <<pc, event, locals, calls, response>>
pureVars == <<input, outputs, history>>

\* largest number of deliveries of the thread's "opened" notification
MaxOpened == 2
\* largest number of comments people write
MaxPosts == 2

\* the orders in which the ranges of status can visit the keys of its maps,
\* when the users are among logins
Orders(logins, emojis) ==
  [users : PermSeqs(logins), emojis : PermSeqs({e \in DOMAIN emojis : emojis[e] # {}})]

\* a store call in a handler's log
Call(op, id, ok) == [op |-> op, id |-> id, ok |-> ok]

\* the notifications that can arrive: the thread's "opened" (and its
\* redeliveries), a "created" per comment (and its redeliveries), the
\* "edited" of an edited report, other activity of people, garbage, and
\* decodable requests with objects missing
Deliverable ==
  {OpenedEvent(kind, u) : u \in {x \in {opener} : opens < MaxOpened}}
    \cup {IssueEvent("created", comments[i].user) : i \in 1..Len(comments)}
    \cup {IssueEvent("edited", githubUser) :
            i \in {x \in 1..Len(comments) : comments[x].user = githubUser}}
    \cup {IssueEvent("closed", opener), InvalidEvent, UnreadableEvent}
    \cup MalformedEvents

\* the local variables of a handler that has listed nothing
NoLocals == [comments |-> <<>>, votes |-> EmptyMap, reactions |-> EmptyMap,
             warning |-> <<>>]

\* lines 82-97: the local variables of a handler that has listed l
Listed(l) ==
  LET a == aggregate(l)
  IN  [comments |-> l, votes |-> a.votes, reactions |-> a.reactions,
       warning |-> RetainWarning(<<>>, l)]

\* handler h takes up notification e
Begin(h, e) ==
  /\ pc[h] = "idle"
  /\ e \in Deliverable
  /\ event' = [event EXCEPT ![h] = e]

\* handler h answers with an HTTP status after the store calls c
Answer(h, c, code) ==
  /\ pc' = [pc EXCEPT ![h] = "done"]
  /\ locals' = [locals EXCEPT ![h] = NoLocals]
  /\ calls' = [calls EXCEPT ![h] = c]
  /\ response' = [response EXCEPT ![h] = code]

\* Issues.CreateComment on the thread: the store appends the comment
StoreCreate(body) == Append(comments, Comment(Len(comments) + 1, githubUser, body))

\* Issues.EditComment on comment id: the store replaces its body
StoreEdit(id, body) ==
  [i \in 1..Len(comments) |->
     IF comments[i].id = id THEN [comments[i] EXCEPT !.body = body] ELSE comments[i]]

\* FirstOwn that goes on to the last comment of the engine
LastOwn(l) ==
  IF \E i \in 1..Len(l) : l[i].user = githubUser
  THEN CHOOSE i \in 1..Len(l) :
         /\ l[i].user = githubUser
         /\ \A j \in (i + 1)..Len(l) : l[j].user # githubUser
  ELSE 0

\* lines 100-101: the index of the first comment of a list written by the
\* engine, 0 if there is none
FirstOwn(l) ==
  IF \E i \in 1..Len(l) : l[i].user = githubUser
  THEN CHOOSE i \in 1..Len(l) :
         /\ l[i].user = githubUser
         /\ \A j \in 1..(i - 1) : l[j].user # githubUser
  ELSE 0

Init ==
  /\ kind \in Kinds
  /\ comments = <<>>
  /\ opens = 0
  /\ posts = 0
  /\ pc = [h \in Handlers |-> "idle"]
  /\ event = [h \in Handlers |-> Nil]
  /\ locals = [h \in Handlers |-> NoLocals]
  /\ calls = [h \in Handlers |-> <<>>]
  /\ response = [h \in Handlers |-> NoResponse]
  /\ input = Nil
  /\ outputs = <<>>
  /\ history = <<>>
  /\ delivered = 0

\* somebody writes a comment on the thread
PostComment(u, b) ==
  /\ posts < MaxPosts
  /\ posts' = posts + 1
  /\ comments' = Append(comments, Comment(Len(comments) + 1, u, b))
  /\ UNCHANGED <<kind, opens>>
  /\ UNCHANGED handlerVars
  /\ UNCHANGED pureVars

\* lines 42-48 passed: the body decoded and the sender is not the engine
Outside(e) == e.valid /\ e.sender # Nil /\ e.sender.login # githubUser

\* the "opened" case dereferences a nil pointer: the base of the pull
\* request (line 71), the repository or its owner (line 75)
OpenedPanics(e) ==
  IF e.pull # Nil /\ e.pull.base = Nil THEN TRUE
  ELSE IF e.repo = Nil THEN TRUE
  ELSE e.repo.owner = Nil

\* the "created" case dereferences a nil pointer: the repository, its
\* owner or the issue (line 82)
CreatedPanics(e) ==
  IF e.repo = Nil THEN TRUE
  ELSE IF e.repo.owner = Nil THEN TRUE
  ELSE e.issue = Nil

\* lines 35-39: the body cannot be read
HandleUnreadable(h, e) ==
  /\ Begin(h, e)
  /\ ~e.read
  /\ Answer(h, <<>>, 500)
  /\ UNCHANGED storeVars
  /\ UNCHANGED pureVars

\* lines 41-45: the body does not decode
HandleInvalid(h, e) ==
  /\ Begin(h, e)
  /\ e.read
  /\ ~e.valid
  /\ Answer(h, <<>>, 400)
  /\ UNCHANGED storeVars
  /\ UNCHANGED pureVars

\* HandleOwn with the check of the action ahead of the check of the sender
HandleOwnLate(h, e) ==
  /\ Begin(h, e)
  /\ e.valid
  /\ e.sender # Nil
  /\ e.sender.login = githubUser
  /\ Answer(h, <<>>, IF e.action # "opened" /\ e.action # "created" THEN 405 ELSE 200)
  /\ UNCHANGED storeVars
  /\ UNCHANGED pureVars

\* lines 46-48: the engine's own activity
HandleOwn(h, e) ==
  /\ Begin(h, e)
  /\ e.valid
  /\ e.sender # Nil
  /\ e.sender.login = githubUser
  /\ Answer(h, <<>>, 200)
  /\ UNCHANGED storeVars
  /\ UNCHANGED pureVars

\* HandleUnsupported that lists the comments before it refuses the action
HandleUnsupportedLate(h, e) ==
  /\ Begin(h, e)
  /\ Outside(e)
  /\ e.action # "opened" /\ e.action # "created"
  /\ Answer(h, <<Call("list", 0, TRUE)>>, 405)
  /\ UNCHANGED storeVars
  /\ UNCHANGED pureVars

\* lines 49-52: an action that is neither "opened" nor "created"
HandleUnsupported(h, e) ==
  /\ Begin(h, e)
  /\ Outside(e)
  /\ e.action # "opened" /\ e.action # "created"
  /\ Answer(h, <<>>, 405)
  /\ UNCHANGED storeVars
  /\ UNCHANGED pureVars

\* lines 46, 71, 75, 82: a nil pointer is dereferenced and the handler
\* panics; it has made no store call and has written no response
HandlePanic(h, e) ==
  /\ Begin(h, e)
  /\ e.valid
  /\ IF e.sender = Nil THEN TRUE
     ELSE IF e.sender.login = githubUser THEN FALSE
     ELSE IF e.action = "opened" THEN OpenedPanics(e)
     ELSE IF e.action = "created" THEN CreatedPanics(e)
     ELSE FALSE
  /\ Answer(h, <<>>, Panicked)
  /\ UNCHANGED storeVars
  /\ UNCHANGED pureVars

\* OpenedWarning that warns about every pull request
OpenedWarningAnyPull(e) ==
  IF e.pull # Nil
  THEN <<"P","u","l","l"," ","r","e","q","u","e","s","t"," ",
         "a","g","a","i","n","s","t"," ",Backquote,"m","a","s","t","e","r",Backquote>>
  ELSE <<>>

\* lines 69-73: the warning of a pull request against master
OpenedWarning(e) ==
  IF e.pull # Nil /\ e.pull.base.ref = <<"m","a","s","t","e","r">>
  THEN <<"P","u","l","l"," ","r","e","q","u","e","s","t"," ",
         "a","g","a","i","n","s","t"," ",Backquote,"m","a","s","t","e","r",Backquote>>
  ELSE <<>>

\* lines 61-78: a thread was opened; render an empty report and create the
\* comment, which the store may refuse
HandleOpened(h, e, now, ok) ==
  /\ Begin(h, e)
  /\ Outside(e)
  /\ e.action = "opened"
  /\ ~OpenedPanics(e)
  /\ opens' = opens + 1
  /\ comments' =
       IF ok
       THEN StoreCreate(status(OpenedWarning(e), EmptyMap, EmptyMap,
                               [users |-> <<>>, emojis |-> <<>>], now))
       ELSE comments
  /\ Answer(h, <<Call("create", 0, ok)>>, IF ok THEN 200 ELSE 500)
  /\ UNCHANGED <<kind, posts>>
  /\ UNCHANGED pureVars

\* Refreshed that leaves the reactions out
RefreshedVotesOnly(l, order, now) == status(l.warning, l.votes, EmptyMap, order, now)

\* line 99: the report of the listed comments
Refreshed(l, order, now) == status(l.warning, l.votes, l.reactions, order, now)

\* HandleCreated that creates the report when the list holds none
HandleCreatedOrCreate(h, e, ok) ==
  /\ Begin(h, e)
  /\ Outside(e)
  /\ e.action = "created"
  /\ ~CreatedPanics(e)
  /\ IF ~ok
     THEN Answer(h, <<Call("list", 0, FALSE)>>, 500) /\ UNCHANGED comments
     ELSE IF FirstOwn(comments) = 0
     THEN /\ Answer(h, <<Call("list", 0, TRUE), Call("create", 0, TRUE)>>, 200)
          /\ comments' =
               StoreCreate(Refreshed(Listed(comments),
                                     CHOOSE o \in Orders(Users, aggregate(comments).reactions) : TRUE,
                                     0))
     ELSE /\ pc' = [pc EXCEPT ![h] = "edit"]
          /\ locals' = [locals EXCEPT ![h] = Listed(comments)]
          /\ calls' = [calls EXCEPT ![h] = <<Call("list", 0, TRUE)>>]
          /\ UNCHANGED <<response, comments>>
  /\ UNCHANGED <<kind, opens, posts>>
  /\ UNCHANGED pureVars

\* lines 80-86, and lines 100-109 when the list holds no comment of the
\* engine: a comment was created; list the comments, which the store may
\* refuse, and answer without an edit if there is none to edit
HandleCreated(h, e, ok) ==
  /\ Begin(h, e)
  /\ Outside(e)
  /\ e.action = "created"
  /\ ~CreatedPanics(e)
  /\ IF ~ok
     THEN Answer(h, <<Call("list", 0, FALSE)>>, 500)
     ELSE IF FirstOwn(comments) = 0
     THEN Answer(h, <<Call("list", 0, TRUE)>>, 200)
     ELSE /\ pc' = [pc EXCEPT ![h] = "edit"]
          /\ locals' = [locals EXCEPT ![h] = Listed(comments)]
          /\ calls' = [calls EXCEPT ![h] = <<Call("list", 0, TRUE)>>]
          /\ UNCHANGED response
  /\ UNCHANGED storeVars
  /\ UNCHANGED pureVars

\* HandleCreatedEdit that calls EditComment again when the store refuses
HandleCreatedEditRetry(h, order, now, ok) ==
  /\ pc[h] = "edit"
  /\ LET id == locals[h].comments[FirstOwn(locals[h].comments)].id
     IN  /\ comments' = StoreEdit(id, Refreshed(locals[h], order, now))
         /\ Answer(h,
                   IF ok THEN Append(calls[h], Call("edit", id, TRUE))
                   ELSE calls[h] \o <<Call("edit", id, FALSE), Call("edit", id, TRUE)>>,
                   200)
  /\ UNCHANGED <<kind, opens, posts, event>>
  /\ UNCHANGED pureVars

\* lines 98-108: render the report and edit the first comment of the
\* engine in the list, which the store may refuse
HandleCreatedEdit(h, order, now, ok) ==
  /\ pc[h] = "edit"
  /\ LET id == locals[h].comments[FirstOwn(locals[h].comments)].id
     IN  /\ comments' = IF ok THEN StoreEdit(id, Refreshed(locals[h], order, now))
                        ELSE comments
         /\ Answer(h, Append(calls[h], Call("edit", id, ok)), IF ok THEN 200 ELSE 500)
  /\ UNCHANGED <<kind, opens, posts, event>>
  /\ UNCHANGED pureVars

\* the handler returns and the response goes out
Return(h) ==
  /\ pc[h] = "done"
  /\ pc' = [pc EXCEPT ![h] = "idle"]
  /\ event' = [event EXCEPT ![h] = Nil]
  /\ calls' = [calls EXCEPT ![h] = <<>>]
  /\ response' = [response EXCEPT ![h] = NoResponse]
  /\ UNCHANGED locals
  /\ UNCHANGED storeVars
  /\ UNCHANGED pureVars

\* the instants at which a handler reads the clock (line 200); SpecStatus
\* renders at every instant of 0..MaxTime
Clock == {0}

Next ==
  \/ \E p \in Posts : PostComment(p[1], p[2]) /\ UNCHANGED delivered
  \/ \E h \in Serial, e \in Deliverable : HandleUnreadable(h, e) /\ UNCHANGED delivered
  \/ \E h \in Serial, e \in Deliverable : HandleInvalid(h, e) /\ UNCHANGED delivered
  \/ \E h \in Serial, e \in Deliverable : HandleOwn(h, e) /\ UNCHANGED delivered
  \/ \E h \in Serial, e \in Deliverable : HandleUnsupported(h, e) /\ UNCHANGED delivered
  \/ \E h \in Serial, e \in Deliverable : HandlePanic(h, e) /\ UNCHANGED delivered
  \/ \E h \in Serial, e \in Deliverable, now \in Clock, ok \in BOOLEAN :
       HandleOpened(h, e, now, ok) /\ UNCHANGED delivered
  \/ \E h \in Serial, e \in Deliverable, ok \in BOOLEAN :
       HandleCreated(h, e, ok) /\ UNCHANGED delivered
  \/ \E h \in Serial, now \in Clock, ok \in BOOLEAN :
       \E order \in Orders(Users, locals[h].reactions) :
         HandleCreatedEdit(h, order, now, ok) /\ UNCHANGED delivered
  \/ \E h \in Serial : Return(h) /\ UNCHANGED delivered

Spec == Init /\ [][Next]_vars

(***************************************************************************)
(* The handlers of one thread running at the same time: SpecRace delivers  *)
(* the thread's "opened" once and the "created" of every comment, which    *)
(* can be delivered again once all were, to handlers whose store calls     *)
(* succeed and whose ListComments and EditComment are separate steps.      *)
(***************************************************************************)
\* the "opened" notification of the thread is handled
RaceOpened(h, now) ==
  /\ opens = 0
  /\ HandleOpened(h, OpenedEvent(kind, opener), now, TRUE)
  /\ UNCHANGED delivered

\* a "created" notification is taken up: that of a comment not yet
\* notified, or a redelivery when every comment was notified
RaceCreated(h, e) ==
  /\ posts > 0
  /\ HandleCreated(h, e, TRUE)
  /\ delivered' = IF delivered < posts THEN delivered + 1 ELSE delivered

NextRace ==
  \/ \E p \in Posts : PostComment(p[1], p[2]) /\ UNCHANGED delivered
  \/ \E h \in Handlers, now \in Clock : RaceOpened(h, now)
  \/ \E h \in Handlers :
       \E e \in {IssueEvent("created", comments[i].user) :
                   i \in {x \in 1..Len(comments) : comments[x].user # githubUser}} :
         RaceCreated(h, e)
  \/ \E h \in Handlers, now \in Clock :
       \E order \in Orders(Users, locals[h].reactions) :
         HandleCreatedEdit(h, order, now, TRUE) /\ UNCHANGED delivered
  \/ \E h \in Handlers : Return(h) /\ UNCHANGED delivered

\* the thread of SpecRace is a pull request against master, whose report
\* carries a warning
InitRace == Init /\ kind = "master"

SpecRace == InitRace /\ [][NextRace]_vars

(***************************************************************************)
(* status and aggregate on their own: SpecStatus executes status on given  *)
(* arguments, SpecAggregate executes aggregate on a given list of comments *)
(* and then status on its result.                                          *)
(***************************************************************************)
\* logins of the people who vote and react
Voters == Users \cup {<<"a","b">>}

\* reaction codes of the maps handed to status
Codes == {<<":","a",":">>, <<":","b",":">>}

\* the vote maps handed to status
VoteMaps == UNION {[keys -> BOOLEAN] : keys \in SUBSET Voters}

\* the reaction maps handed to status: every code has a user
ReactionMaps == UNION {[keys -> (SUBSET Users) \ {{}}] : keys \in SUBSET Codes}

\* the reaction maps of three codes handed to status
WideReactionMaps ==
  [Codes \cup {<<":","c",":">>} -> (SUBSET Users) \ {{}}]

\* the arguments of status, and the time of the execution
StatusInput(warning, votes, emojis, now) ==
  [warning |-> warning, votes |-> votes, emojis |-> emojis, now |-> now]

\* the warnings handed to status
Warnings == {<<>>, OpenedWarning(OpenedEvent("master", opener))}

\* bodies of the comments handed to aggregate: votes, reactions, both vote
\* markers in either order, a repeated reaction, and a rendered report
HistoryBodies ==
  { <<":","+","1",":">>,
    <<":","-","1",":"," ",":","a",":">>,
    <<":","-","1",":"," ",":","+","1",":","a",":"," ",":","b",":">>,
    <<":","b",":"," ",":","b",":">>,
    <<":","+","1",":"," ",":","-","1",":">>,
    status(<<>>, [u \in {<<"a">>} |-> TRUE], [e \in {<<":","a",":">>} |-> {<<"a">>}],
           [users |-> <<<<"a">>>>, emojis |-> <<<<":","a",":">>>>], 0) }

\* the comment lists of at most n comments, of people and of the engine
RECURSIVE Histories(_)
Histories(n) ==
  IF n = 0 THEN {<<>>}
  ELSE Histories(n - 1) \cup
       {Append(l, Comment(Len(l) + 1, u, b)) :
          l \in {x \in Histories(n - 1) : Len(x) = n - 1},
          u \in Users \cup {githubUser}, b \in HistoryBodies}

\* the handler side at rest
Quiet ==
  /\ kind = "issue"
  /\ comments = <<>>
  /\ opens = 0
  /\ posts = 0
  /\ pc = [h \in Handlers |-> "idle"]
  /\ event = [h \in Handlers |-> Nil]
  /\ locals = [h \in Handlers |-> NoLocals]
  /\ calls = [h \in Handlers |-> <<>>]
  /\ response = [h \in Handlers |-> NoResponse]
  /\ delivered = 0

InitStatus ==
  /\ Quiet
  /\ input \in {StatusInput(w, v, r, now) :
                  w \in Warnings, v \in VoteMaps, r \in ReactionMaps, now \in 0..MaxTime}
               \cup {StatusInput(<<>>, EmptyMap, r, now) :
                       r \in WideReactionMaps, now \in 0..MaxTime}
  /\ outputs = <<>>
  /\ history = <<>>

InitAggregate ==
  /\ Quiet
  /\ input = Nil
  /\ outputs = <<>>
  /\ history \in Histories(MaxHist)

\* line 88: votes, reactions := aggregate(comments)
RunAggregate(now) ==
  /\ input = Nil
  /\ LET a == aggregate(history)
     IN  input' = StatusInput(<<>>, a.votes, a.reactions, now)
  /\ UNCHANGED <<outputs, history, delivered>>
  /\ UNCHANGED storeVars
  /\ UNCHANGED handlerVars

\* one execution of status(warning, votes, emojis), its map ranges visiting
\* the keys in some order
RunStatus(order) ==
  /\ input # Nil
  /\ Len(outputs) < MaxRuns
  /\ outputs' = Append(outputs,
                       status(input.warning, input.votes, input.emojis, order, input.now))
  /\ UNCHANGED <<input, history, delivered>>
  /\ UNCHANGED storeVars
  /\ UNCHANGED handlerVars

\* lines 98-99: the one report rendered from what aggregate returned
RunReport(order) ==
  /\ outputs = <<>>
  /\ RunStatus(order)

NextStatus ==
  \E order \in Orders(Voters, IF input = Nil THEN EmptyMap ELSE input.emojis) :
    RunStatus(order)

NextAggregate ==
  \/ \E now \in Clock : RunAggregate(now)
  \/ \E order \in Orders(Voters, IF input = Nil THEN EmptyMap ELSE input.emojis) :
       RunReport(order)

SpecStatus == InitStatus /\ [][NextStatus]_vars

SpecAggregate == InitAggregate /\ [][NextAggregate]_vars

(***************************************************************************)
(* Reading a rendered report: its lines, the fields of a table row, the    *)
(* names of a row.                                                         *)
(***************************************************************************)
HasPrefix(s, p) == OccursAt(s, p, 1)

\* the pieces of s between the occurrences of sep, which do not overlap
Split(s, sep) ==
  LET IsSep(i) == s[i] = sep[1] /\ OccursAt(s, sep, i)
      at == SelectSeq([i \in 1..Len(s) |-> i], IsSep)
      from == <<1>> \o [k \in 1..Len(at) |-> at[k] + Len(sep)]
      to == at \o <<Len(s) + 1>>
  IN  [k \in 1..(Len(at) + 1) |-> SubSeq(s, from[k], to[k] - 1)]

\* the lines of a text
Lines(text) ==
  LET IsBreak(i) == text[i] = "\n"
      nl == SelectSeq([i \in 1..Len(text) |-> i], IsBreak)
      from == <<0>> \o nl
      to == nl \o <<Len(text) + 1>>
  IN  [k \in 1..(Len(nl) + 1) |-> SubSeq(text, from[k] + 1, to[k] - 1)]

\* the fields of the table row "| f1 | f2 | ... |", none for another line
Fields(line) ==
  IF Len(line) >= 4 /\ HasPrefix(line, <<"|"," ">>)
       /\ OccursAt(line, <<" ","|">>, Len(line) - 1)
  THEN Split(SubSeq(line, 3, Len(line) - 2), <<" ","|"," ">>)
  ELSE <<>>

\* the mentions of a field, without their "@"
Names(field) ==
  IF field = <<>> THEN <<>>
  ELSE LET l == Split(field, <<" ">>) IN [i \in 1..Len(l) |-> Tail(l[i])]

\* the vote row of a marker among the lines l: its count and its names
VoteRowIn(l, marker) ==
  LET f == Fields(l[CHOOSE i \in 1..Len(l) : HasPrefix(l[i], <<"|"," ">> \o marker)])
  IN  [count |-> f[2], names |-> Names(f[3])]

\* the vote row of a marker in a report
VoteRow(text, marker) == VoteRowIn(Lines(text), marker)

\* the reaction rows among the lines l, in their order, each as
\* <<code, names>>; ReactionRowsOf reads them from a report
ReactionRowsIn(l) ==
  LET fields == [i \in 1..Len(l) |-> Fields(l[i])]
      IsRow(f) == /\ Len(f) = 2
                  /\ HasPrefix(f[1], <<":">>)
                  /\ f[1] # <<":","-","-","-",":">>
      rows == SelectSeq(fields, IsRow)
  IN  [i \in 1..Len(rows) |-> <<rows[i][1], Names(rows[i][2])>>]

ReactionRowsOf(text) == ReactionRowsIn(Lines(text))

\* a list of strings is in strictly ascending order
Ascending(l) == \A i, j \in 1..Len(l) : i < j => StrLess(l[i], l[j])

\* the comments of the thread written by the engine
OwnComments == {i \in 1..Len(comments) : comments[i].user = githubUser}

\* handler h takes up a "created" notification of somebody else, with its
\* repository and its issue, in this step
TakesUpCreated(h) ==
  /\ pc[h] = "idle" /\ pc'[h] # "idle"
  /\ Outside(event'[h])
  /\ event'[h].action = "created"
  /\ ~CreatedPanics(event'[h])

(***************************************************************************)
(* The claims.                                                             *)
(***************************************************************************)
\* C1: after any sequence of handled notifications, a redelivered "opened"
\* included, the thread holds at most one comment written by the engine.
C1_AtMostOneReport == Cardinality(OwnComments) <= 1

\* C2: handling a "created" notification never calls createComment; when
\* the listed comments hold a comment of the engine, the handler goes on to
\* exactly one editComment, on the first such comment in creation order,
\* and no step of the handler changes the number of comments.
C2_RefreshEditsFirst ==
  [][\A h \in Serial :
       /\ TakesUpCreated(h) =>
            /\ Len(comments') = Len(comments)
            /\ \A k \in 1..Len(calls'[h]) : calls'[h][k].op = "list"
            /\ Len(calls'[h]) >= 1
            /\ (calls'[h][1].ok /\ OwnComments # {}) =>
                 (pc'[h] = "edit" /\ locals'[h].comments = comments)
       /\ (pc[h] = "edit" /\ pc'[h] # "edit") =>
            /\ Len(comments') = Len(comments)
            /\ pc'[h] = "done"
            /\ Len(calls'[h]) = 2
            /\ calls'[h][1] = Call("list", 0, TRUE)
            /\ calls'[h][2].op = "edit"
            /\ \E i \in 1..Len(locals[h].comments) :
                 /\ locals[h].comments[i].id = calls'[h][2].id
                 /\ locals[h].comments[i].user = githubUser
                 /\ \A j \in 1..(i - 1) : locals[h].comments[j].user # githubUser]_vars

\* a refresh has edited a thread that holds two comments of the engine
C2_Witness ==
  \E h \in Serial :
    /\ pc[h] = "done"
    /\ Len(calls[h]) = 2
    /\ calls[h][2].op = "edit"
    /\ calls[h][2].ok
    /\ Cardinality(OwnComments) >= 2

\* C3: handling a "created" notification when the listed comments hold no
\* comment of the engine makes no create and no edit, and leaves every
\* comment and the number of comments as they were.
C3_RefreshWithoutReport ==
  [][\A h \in Serial :
       (TakesUpCreated(h) /\ Len(calls'[h]) >= 1 /\ calls'[h][1].ok
          /\ OwnComments = {}) =>
         /\ pc'[h] = "done"
         /\ calls'[h] = <<Call("list", 0, TRUE)>>
         /\ response'[h] = 200
         /\ comments' = comments]_vars

\* a refresh has answered on a thread with comments but none of the engine
C3_Witness ==
  \E h \in Serial :
    /\ pc[h] = "done"
    /\ event[h].action = "created"
    /\ calls[h] = <<Call("list", 0, TRUE)>>
    /\ Len(comments) >= 1
    /\ OwnComments = {}

\* C4: the engine's identity is never a key of the votes and never a user
\* of a reaction that aggregate returns, whatever its comments contain.
C4_SelfExcluded ==
  input # Nil =>
    /\ githubUser \notin DOMAIN input.votes
    /\ \A e \in DOMAIN input.emojis : githubUser \notin input.emojis[e]

\* aggregate has run on a list where the engine wrote a vote marker and a
\* reaction code, and somebody else voted
C4_Witness ==
  /\ input # Nil
  /\ DOMAIN input.votes # {}
  /\ \E i \in 1..Len(history) :
       /\ history[i].user = githubUser
       /\ Contains(history[i].body, <<":","+","1",":">>)
       /\ Contains(history[i].body, <<":","a",":">>)

\* C5: a notification whose sender is the engine causes no store call and
\* is answered with success, whatever its action; the thread is unchanged.
C5_OwnActivityIgnored ==
  [][\A h \in Serial :
       (pc[h] = "idle" /\ pc'[h] # "idle" /\ event'[h].valid
          /\ event'[h].sender # Nil
          /\ event'[h].sender.login = githubUser) =>
         /\ pc'[h] = "done"
         /\ calls'[h] = <<>>
         /\ response'[h] = 200
         /\ comments' = comments]_vars

\* the "edited" notification of the engine's own edit was answered
C5_Witness ==
  \E h \in Serial :
    /\ pc[h] = "done"
    /\ event[h].valid
    /\ event[h].sender # Nil
    /\ event[h].sender.login = githubUser
    /\ event[h].action = "edited"
    /\ response[h] = 200

\* C6: for the same warning, votes, reactions and timestamp, every
\* execution of status returns the same text, whatever the order in which
\* the reaction map is enumerated.
C6_Deterministic ==
  \A i, j \in 1..Len(outputs) : outputs[i] = outputs[j]

\* C7: the reaction rows of a report are in non-increasing order of their
\* number of users.
C7_RowsByFrequency ==
  \A k \in 1..Len(outputs) :
    LET rows == ReactionRowsOf(outputs[k])
    IN  \A i \in 1..(Len(rows) - 1) : Len(rows[i][2]) >= Len(rows[i + 1][2])

\* C8: no disabled reaction code is the code of a reaction row of the
\* report, for any comment history.
C8_DisabledNotReported ==
  \A k \in 1..Len(outputs) :
    LET rows == ReactionRowsOf(outputs[k])
    IN  \A i \in 1..Len(rows) : rows[i][1] \notin disabled

\* a report with a reaction row was rendered from a history in which
\* somebody wrote a disabled code
C8_Witness ==
  /\ Len(outputs) >= 1
  /\ ReactionRowsOf(outputs[1]) # <<>>
  /\ \E i \in 1..Len(history), d \in disabled :
       history[i].user # githubUser /\ Contains(history[i].body, d)

\* C9: the approve list and the reject list of a report are each sorted
\* ascending by user, have no user in common, together hold exactly the
\* keys of the votes, and the two counts are the lengths of the lists.
C9_VoteLists ==
  \A k \in 1..Len(outputs) :
    LET up == VoteRow(outputs[k], <<":","+","1",":">>)
        down == VoteRow(outputs[k], <<":","-","1",":">>)
    IN  /\ Ascending(up.names)
        /\ Ascending(down.names)
        /\ Range(up.names) \cap Range(down.names) = {}
        /\ Range(up.names) \cup Range(down.names) = DOMAIN input.votes
        /\ up.count = Itoa(Len(up.names))
        /\ down.count = Itoa(Len(down.names))

\* a report was rendered for two approvers and a rejecter
C9_Witness ==
  /\ Len(outputs) >= 1
  /\ Cardinality({u \in DOMAIN input.votes : input.votes[u]}) >= 2
  /\ \E u \in DOMAIN input.votes : ~input.votes[u]

\* C10: the report carries the warning it was created with (the banner of
\* a pull request against master, none otherwise) after every refresh,
\* whatever people wrote in between.
C10_WarningKept ==
  \A i \in OwnComments :
    IF kind = "master"
    THEN HasPrefix(comments[i].body,
                   ExclOpen \o <<"P","u","l","l"," ","r","e","q","u","e","s","t"," ",
                                 "a","g","a","i","n","s","t"," ",
                                 Backquote,"m","a","s","t","e","r",Backquote>>
                     \o ExclClose \o <<"\n","\n","|"," ","V","o","t","e">>)
    ELSE HasPrefix(comments[i].body, <<"|"," ","V","o","t","e">>)

\* the report of a pull request against master was refreshed after
\* somebody wrote a comment with exclamation markers
C10_Witness ==
  /\ kind = "master"
  /\ \E i \in OwnComments :
       Contains(comments[i].body,
                <<"|"," ",":","e","x","c","l","a","m","a","t","i","o","n",":"," ","|"," ","@">>)

\* the first line of the report of a pull request against master
MasterBanner ==
  ExclOpen \o <<"P","u","l","l"," ","r","e","q","u","e","s","t"," ",
                "a","g","a","i","n","s","t"," ",
                Backquote,"m","a","s","t","e","r",Backquote>> \o ExclClose

\* the head of the vote table
VoteHead ==
  <<"|"," ","V","o","t","e"," ","|"," ","C","o","u","n","t"," ","|"," ",
    "R","e","v","i","e","w","e","r","s"," ","|">>

\* a report with empty tallies: both counts zero, nobody named, no
\* reaction table
EmptyTallies(text) ==
  /\ VoteRow(text, <<":","+","1",":">>) = [count |-> <<"0">>, names |-> <<>>]
  /\ VoteRow(text, <<":","-","1",":">>) = [count |-> <<"0">>, names |-> <<>>]
  /\ ReactionRowsOf(text) = <<>>
  /\ ~Contains(text, <<"R","e","a","c","t","i","o","n">>)

\* C11: an "opened" notification whose create call succeeds appends
\* exactly one comment, of the engine, whose report has empty tallies; its
\* first line is the banner "Pull request against `master`" exactly when
\* the payload carries a pull request whose base branch is master, and is
\* the head of the vote table otherwise.
C11_OpenedReport ==
  [][\A h \in Serial :
       (pc[h] = "idle" /\ pc'[h] = "done" /\ event'[h].valid
          /\ event'[h].action = "opened" /\ response'[h] = 200
          /\ calls'[h] # <<>>) =>
         /\ calls'[h] = <<Call("create", 0, TRUE)>>
         /\ Len(comments') = Len(comments) + 1
         /\ SubSeq(comments', 1, Len(comments)) = comments
         /\ \A new \in {comments'[Len(comments')]} :
              LET first == Lines(new.body)[1]
                  master == /\ event'[h].pull # Nil
                            /\ event'[h].pull.base # Nil
                            /\ event'[h].pull.base.ref = <<"m","a","s","t","e","r">>
              IN  /\ new.user = githubUser
                  /\ EmptyTallies(new.body)
                  /\ master => first = MasterBanner
                  /\ ~master => first = VoteHead]_vars

\* the report of a pull request against another branch than master was
\* created on a thread where somebody had commented
C11_Witness ==
  \E h \in Serial :
    /\ pc[h] = "done"
    /\ event[h].action = "opened"
    /\ event[h].pull # Nil
    /\ event[h].pull.base # Nil
    /\ event[h].pull.base.ref = <<"d","e","v">>
    /\ response[h] = 200
    /\ Len(comments) >= 2
    /\ comments[Len(comments)].user = githubUser

\* C12: every notification that was handled was answered with success,
\* 400, 405 or 500, the decodable notifications that lack their sender,
\* repository, issue or pull request base included.
C12_AlwaysAnswered ==
  \A h \in Serial : pc[h] = "done" => response[h] \in {200, 400, 405, 500}

\* C13: a notification whose body does not decode is answered 400, and a
\* notification of somebody else whose action is neither "opened" nor
\* "created" is answered 405; in both cases the handler makes no store
\* call and the thread is as it was.
C13_RefusedWithoutEffect ==
  [][\A h \in Serial :
       (pc[h] = "idle" /\ pc'[h] # "idle") =>
         /\ (event'[h].read /\ ~event'[h].valid) =>
              /\ pc'[h] = "done"
              /\ response'[h] = 400
              /\ calls'[h] = <<>>
              /\ comments' = comments
         /\ (Outside(event'[h]) /\ event'[h].action \notin {"opened", "created"}) =>
              /\ pc'[h] = "done"
              /\ response'[h] = 405
              /\ calls'[h] = <<>>
              /\ comments' = comments]_vars

\* a "closed" notification was refused on a thread that has a report and
\* a comment
C13_Witness ==
  \E h \in Serial :
    /\ pc[h] = "done"
    /\ event[h].valid
    /\ event[h].action = "closed"
    /\ response[h] = 405
    /\ OwnComments # {}
    /\ Len(comments) >= 2

\* C14: a store call that fails is the last store call of its handler,
\* which answers 500 in the same step and leaves every comment as it was:
\* after a failed ListComments there is no create and no edit, and a failed
\* EditComment leaves the body of the report as it was.
C14_FailureEndsHandling ==
  [][\A h \in Serial :
       LET after == calls'[h]
       IN  (after # calls[h] /\ \E k \in 1..Len(after) : ~after[k].ok) =>
             /\ \A k \in 1..(Len(after) - 1) : after[k].ok
             /\ ~after[Len(after)].ok
             /\ after[1].op = "list" /\ ~after[1].ok => Len(after) = 1
             /\ pc'[h] = "done"
             /\ response'[h] = 500
             /\ comments' = comments]_vars

\* an EditComment failed on a thread whose report is behind its comments
C14_Witness ==
  \E h \in Serial :
    /\ pc[h] = "done"
    /\ Len(calls[h]) = 2
    /\ calls[h][2].op = "edit"
    /\ ~calls[h][2].ok
    /\ response[h] = 500
    /\ \E i \in OwnComments : EmptyTallies(comments[i].body)
    /\ aggregate(comments).votes # EmptyMap

\* what a report shows: who approves, who rejects, and the reaction rows
ReadReport(text) ==
  CHOOSE r \in {[up   |-> VoteRowIn(l, <<":","+","1",":">>).names,
                 down |-> VoteRowIn(l, <<":","-","1",":">>).names,
                 rows |-> ReactionRowsIn(l)] : l \in {Lines(text)}} : TRUE

\* the votes and reactions a report shows are those of the tallies a
Shows(text, a) ==
  \A r \in {ReadReport(text)} :
    /\ Range(r.up) = {u \in DOMAIN a.votes : a.votes[u]}
    /\ Range(r.down) = {u \in DOMAIN a.votes : ~a.votes[u]}
    /\ Len(r.rows) = Cardinality(DOMAIN a.reactions)
    /\ {r.rows[i][1] : i \in 1..Len(r.rows)} = DOMAIN a.reactions
    /\ \A i \in 1..Len(r.rows) : Range(r.rows[i][2]) = a.reactions[r.rows[i][1]]

\* the report of the thread: the first comment of the engine
Report(l) == l[FirstOwn(l)]

\* C15: however the ListComments and EditComment steps of two refresh
\* handlers of a thread interleave, no step of a refresh handler adds a
\* comment, and a refresh that edits the thread as it listed it (nothing
\* happened to the thread in between) leaves a report that shows the
\* votes and reactions of all comments of the thread.
C15_RefreshSelfCorrects ==
  [][\A h \in Handlers :
       /\ (TakesUpCreated(h) \/ (pc[h] = "edit" /\ pc'[h] # "edit")) =>
            /\ Len(comments') = Len(comments)
            /\ {i \in 1..Len(comments') : comments'[i].user = githubUser} = OwnComments
       /\ (pc[h] = "edit" /\ pc'[h] = "done" /\ locals[h].comments = comments) =>
            \A text \in {Report(comments').body}, a \in {aggregate(comments')} :
              Shows(text, a)]_vars

\* a handler has refreshed the report of a thread with two comments and
\* the report shows both, while the other handler is between its list and
\* its edit with a list that lacks the second comment
C15_Witness ==
  \E h, g \in Handlers :
    /\ pc[h] = "done"
    /\ Len(calls[h]) = 2
    /\ calls[h][2].op = "edit"
    /\ pc[g] = "edit"
    /\ Len(locals[g].comments) < Len(comments)
    /\ Cardinality(DOMAIN aggregate(comments).votes) = 2
    /\ Shows(Report(comments).body, aggregate(comments))

\* C19: when the "opened" notification of the thread and the "created"
\* notification of every comment have been handled with success and no
\* handler is in flight, the thread has a report that shows the votes and
\* reactions of all comments of the thread.
C19_HandledMeansCurrent ==
  (opens = 1 /\ delivered = posts /\ \A h \in Handlers : pc[h] = "idle") =>
    /\ OwnComments # {}
    /\ Shows(Report(comments).body, aggregate(comments))

\* the approve marker and the reject marker
Approve == <<":","+","1",":">>
Reject == <<":","-","1",":">>

\* the comments of the history in which user u put a vote marker
Marked(u) ==
  {i \in 1..Len(history) :
     /\ history[i].user = u
     /\ Contains(history[i].body, Approve) \/ Contains(history[i].body, Reject)}

\* C16: after aggregate over a list in creation order, a user other than
\* the engine has a vote exactly if one of the user's comments holds a
\* vote marker, and the vote is that of the last such comment: approve if
\* it contains ":+1:", reject otherwise.
C16_LastMarkedCommentWins ==
  input # Nil =>
    \A u \in Users :
      IF Marked(u) = {} THEN u \notin DOMAIN input.votes
      ELSE /\ u \in DOMAIN input.votes
           /\ LET last == CHOOSE i \in Marked(u) : \A j \in Marked(u) : j <= i
              IN  input.votes[u] = Contains(history[last].body, Approve)

\* aggregate has run on a list where a user approved and later rejected
C16_Witness ==
  /\ input # Nil
  /\ Len(history) >= 2
  /\ \E u \in Users :
       /\ history[1].user = u
       /\ history[2].user = u
       /\ Contains(history[1].body, Approve)
       /\ Contains(history[2].body, Reject)
       /\ ~Contains(history[2].body, Approve)
       /\ ~input.votes[u]

\* C17: a comment that contains both ":+1:" and ":-1:", in either order,
\* and is the last marked comment of its author, sets the author's vote to
\* approve.
C17_BothMarkersApprove ==
  input # Nil =>
    \A i \in 1..Len(history) :
      (/\ history[i].user # githubUser
       /\ Contains(history[i].body, Approve)
       /\ Contains(history[i].body, Reject)
       /\ \A j \in Marked(history[i].user) : j <= i) =>
        /\ history[i].user \in DOMAIN input.votes
        /\ input.votes[history[i].user]

\* aggregate has run on a list with a comment that has the reject marker
\* before the approve marker and a comment that has them the other way round
C17_Witness ==
  /\ input # Nil
  /\ \E i, j \in 1..Len(history) :
       /\ history[i].user \in Users
       /\ history[j].user \in Users
       /\ history[i].user # history[j].user
       /\ HasPrefix(history[i].body, Approve \o <<" ">> \o Reject)
       /\ HasPrefix(history[j].body, Reject \o <<" ">> \o Approve)

\* C18: in every report no reaction code has two rows and no row names a
\* user twice, however often the user used the code; a row's code was
\* used by every user it names, none of them the engine, and it names
\* somebody.
C18_OncePerUserAndCode ==
  \A k \in 1..Len(outputs) :
    \A rows \in {ReactionRowsOf(outputs[k])} :
      /\ \A i, j \in 1..Len(rows) : rows[i][1] = rows[j][1] => i = j
      /\ \A i \in 1..Len(rows) :
           /\ rows[i][2] # <<>>
           /\ Cardinality(Range(rows[i][2])) = Len(rows[i][2])
           /\ \A u \in Range(rows[i][2]) :
                /\ u # githubUser
                /\ \E c \in 1..Len(history) :
                     history[c].user = u /\ Contains(history[c].body, rows[i][1])
      /\ \A e \in DOMAIN input.emojis : Cardinality(input.emojis[e]) >= 1

\* a report was rendered for a list where a user used a code twice in one
\* comment and again in another, and the engine used a code nobody else did
C18_Witness ==
  /\ Len(outputs) >= 1
  /\ Len(history) >= 2
  /\ history[1].user \in Users
  /\ history[1].body = <<":","b",":"," ",":","b",":">>
  /\ \E c \in 2..Len(history) :
       /\ history[c].user = githubUser
       /\ Contains(history[c].body, <<":","a",":">>)
  /\ ReactionRowsOf(outputs[1]) = <<<< <<":","b",":">>, <<history[1].user>> >>>>

\* C20: the reaction table of a report has exactly one row for each code
\* of the reactions handed to status, whatever the order in which the map
\* was enumerated, and each row names exactly the users of its code in
\* ascending order.
C20_RowsPermuteCodes ==
  \A k \in 1..Len(outputs) :
    \A rows \in {ReactionRowsOf(outputs[k])} :
      /\ Len(rows) = Cardinality(DOMAIN input.emojis)
      /\ {rows[i][1] : i \in 1..Len(rows)} = DOMAIN input.emojis
      /\ \A i \in 1..Len(rows) :
           /\ Range(rows[i][2]) = input.emojis[rows[i][1]]
           /\ Ascending(rows[i][2])

\* a report of three codes was rendered in two orders, one of them with a
\* row of one user above a row of two users
C20_Witness ==
  /\ Len(outputs) >= 2
  /\ outputs[1] # outputs[2]
  /\ Cardinality(DOMAIN input.emojis) = 3
  /\ \E rows \in {ReactionRowsOf(outputs[2])} :
       /\ Len(rows) = 3
       /\ Len(rows[1][2]) < Len(rows[2][2])

====
